---- MODULE Spec2Model ----
\* Model of the Map-Matcher geometric core (src/match.py): add_points
\* (densifier), snap (spatial snapper), get_complete (coverage aggregator)
\* and the pagination loop of update_geojson.
\*
\* Arithmetic is exact: a coordinate is a rational kept as numerator over a
\* denominator, a distance is kept as its square.  Floating-point rounding of
\* the Python code is not modelled.
EXTENDS Integers, Sequences, FiniteSets, TLC

VARIABLES
    \* add_points
    points,              \* the input path (argument `points`)
    max_segment_length,  \* argument `max_segment_length`
    new_points,          \* local `new_points`
    i,                   \* loop variable `i` (1-based: index of p2)
    ap_pc,               \* position in add_points
    ap_result,           \* returned value
    \* snap, then get_complete on what it returns
    snap_points,         \* snap's argument `points`: rows (geometry, strava_id)
    lines,               \* snap's argument `lines`: rows (street_id, geometry)
    snapped,             \* the table snap returns (get_complete's `gdf`)
    groups,              \* group keys the groupby loop has yet to visit
    group_key,           \* (street_id, street_len, strava_id) of the current group
    proj,                \* local `proj`: the group's sorted projections
    coverage,            \* local `coverage`
    max_gap,             \* local `max_gap`
    complete,            \* local `complete`
    m_pc,                \* position in snap / get_complete
    \* update_geojson
    activities,          \* local `activities`
    pageNum,             \* local `pageNum`
    requests,            \* the page numbers requested so far, in order
    responses,           \* the responses received so far, in order
    written,             \* write_gdf has been called
    u_result,            \* the rows of the returned GeoDataFrame
    u_pc                 \* position in update_geojson

apVars == <<points, max_segment_length, new_points, i, ap_pc, ap_result>>

mVars == <<snap_points, lines, snapped, groups, group_key, proj, coverage,
           max_gap, complete, m_pc>>

uVars == <<activities, pageNum, requests, responses, written, u_result, u_pc>>

vars == <<points, max_segment_length, new_points, i, ap_pc, ap_result,
          snap_points, lines, snapped, groups, group_key, proj, coverage,
          max_gap, complete, m_pc,
          activities, pageNum, requests, responses, written, u_result, u_pc>>

----------------------------------------------------------------------------
\* Bounds of the model.

\* Longest input path given to add_points.
MaxPathLen == 3

\* Most rows in the points table given to snap.
MaxSnapPoints == 4

\* Most pages update_geojson is let to request.
MaxPages == 4

----------------------------------------------------------------------------
\* Exact planar geometry.

\* A point (x/d, y/d); shapely Point(x, y) of integer coordinates has d = 1.
Point(x, y) == [x |-> x, y |-> y, d |-> 1]

\* Largest r with r*r <= n, searched upwards from r.
RECURSIVE ISqrtFrom(_, _)
ISqrtFrom(n, r) == IF (r + 1) * (r + 1) > n THEN r ELSE ISqrtFrom(n, r + 1)

ISqrt(n) == ISqrtFrom(n, 0)

\* Square of p1.distance(p2), as a fraction <<numerator, denominator>>.
Distance2(p1, p2) ==
    <<(p1.x * p2.d - p2.x * p1.d) * (p1.x * p2.d - p2.x * p1.d)
        + (p1.y * p2.d - p2.y * p1.d) * (p1.y * p2.d - p2.y * p1.d),
      (p1.d * p2.d) * (p1.d * p2.d)>>

----------------------------------------------------------------------------
\* add_points (src/match.py:104-118).

\* segment_length > max_segment_length, for input points (d = 1) and an
\* integer max_segment_length, compared on the squares.
ExceedsOffByOne(p1, p2, m) == Distance2(p1, p2)[1] >= m * m

Exceeds(p1, p2, m) == Distance2(p1, p2)[1] > m * m

\* int(segment_length / max_segment_length) = floor(sqrt(D2) / m).
NumIntermediateTooFew(p1, p2, m) == (ISqrt(Distance2(p1, p2)[1]) \div m) - 1

NumIntermediatePoints(p1, p2, m) == ISqrt(Distance2(p1, p2)[1]) \div m

\* Point(p1.x + j * x_step, p1.y + j * y_step) with
\* x_step = (p2.x - p1.x) / (n + 1), y_step = (p2.y - p1.y) / (n + 1).
IntermediatePoint(p1, p2, n, j) ==
    [x |-> p1.x * (n + 1) + j * (p2.x - p1.x),
     y |-> p1.y * (n + 1) + j * (p2.y - p1.y),
     d |-> n + 1]

\* What one iteration of the outer loop appends to new_points.
IterationAppendsInsideIf(p1, p2, m) ==
    IF Exceeds(p1, p2, m)
    THEN LET n == NumIntermediatePoints(p1, p2, m)
         IN  [j \in 1..n |-> IntermediatePoint(p1, p2, n, j)] \o <<p2>>
    ELSE <<>>

IterationAppends(p1, p2, m) ==
    IF Exceeds(p1, p2, m)
    THEN LET n == NumIntermediatePoints(p1, p2, m)
         IN  [j \in 1..n |-> IntermediatePoint(p1, p2, n, j)] \o <<p2>>
    ELSE <<p2>>

\* The values of the variables of a function that is not running.
AddPointsIdle ==
    /\ points = <<>>
    /\ max_segment_length = 0
    /\ new_points = <<>>
    /\ i = 0
    /\ ap_pc = "idle"
    /\ ap_result = <<>>

MatchIdle ==
    /\ snap_points = <<>>
    /\ lines = <<>>
    /\ snapped = <<>>
    /\ groups = <<>>
    /\ group_key = <<>>
    /\ proj = <<>>
    /\ coverage = <<0, 1>>
    /\ max_gap = <<0, 1>>
    /\ complete = <<>>
    /\ m_pc = "idle"

UpdateIdle ==
    /\ activities = <<>>
    /\ pageNum = 0
    /\ requests = <<>>
    /\ responses = <<>>
    /\ written = FALSE
    /\ u_result = <<>>
    /\ u_pc = "idle"

\* Input points and segment lengths the paths are drawn from.  Distances
\* from the origin: 47, 15 (= the default limit), 16, 50, 0.
PathPoints ==
    {Point(0, 0), Point(47, 0), Point(9, 12), Point(0, 16), Point(30, 40)}

SegmentLengths == {7, 15, 20}

Paths == UNION {[1..n -> PathPoints] : n \in 0..MaxPathLen}

AddPointsInit ==
    /\ points \in Paths
    /\ max_segment_length \in SegmentLengths
    /\ new_points = <<>>
    /\ i = 0
    /\ ap_pc = "start"
    /\ ap_result = <<>>
    /\ MatchIdle
    /\ UpdateIdle

\* line 105: new_points = [points[0]]; an empty list raises IndexError.
AddPointsStart ==
    /\ ap_pc = "start"
    /\ IF Len(points) = 0
       THEN /\ ap_pc' = "IndexError"
            /\ UNCHANGED <<new_points, i>>
       ELSE /\ new_points' = <<points[1]>>
            /\ i' = 2
            /\ ap_pc' = "loop"
    /\ UNCHANGED <<points, max_segment_length, ap_result>>
    /\ UNCHANGED <<mVars, uVars>>

\* lines 106-117: one iteration of `for i in range(1, len(points))`.
AddPointsIteration ==
    /\ ap_pc = "loop"
    /\ i <= Len(points)
    /\ new_points' =
           new_points \o IterationAppends(points[i - 1], points[i], max_segment_length)
    /\ i' = i + 1
    /\ UNCHANGED <<points, max_segment_length, ap_pc, ap_result>>
    /\ UNCHANGED <<mVars, uVars>>

\* line 118: return new_points.
AddPointsReturn ==
    /\ ap_pc = "loop"
    /\ i > Len(points)
    /\ ap_result' = new_points
    /\ ap_pc' = "done"
    /\ UNCHANGED <<points, max_segment_length, new_points, i>>
    /\ UNCHANGED <<mVars, uVars>>

AddPointsNext == AddPointsStart \/ AddPointsIteration \/ AddPointsReturn

SpecAddPoints == AddPointsInit /\ [][AddPointsNext]_vars

----------------------------------------------------------------------------
\* Properties of add_points.

\* p1.distance(p2) <= m, on the squares.
WithinLength(p1, p2, m) ==
    Distance2(p1, p2)[1] <= m * m * Distance2(p1, p2)[2]

\* r lies on the closed straight segment from p to q (p, q input points).
OnSegment(p, q, r) ==
    LET rx == r.x - p.x * r.d
        ry == r.y - p.y * r.d
        qx == q.x - p.x
        qy == q.y - p.y
    IN  /\ qx * ry - qy * rx = 0
        /\ qx * rx + qy * ry >= 0
        /\ qx * rx + qy * ry <= (qx * qx + qy * qy) * r.d

\* out starts with in[1], holds every point of in in order, and whatever
\* lies between two consecutive points of in is on the segment joining them.
RECURSIVE Embeds(_, _)
Embeds(in, out) ==
    IF Len(in) = 0 THEN Len(out) = 0
    ELSE /\ Len(out) >= 1
         /\ out[1] = in[1]
         /\ IF Len(in) = 1 THEN Len(out) = 1
            ELSE \E k \in 2..Len(out) :
                    /\ out[k] = in[2]
                    /\ \A j \in 2..(k - 1) :
                          /\ OnSegment(in[1], in[2], out[j])
                          /\ out[j] /= in[1]
                          /\ out[j] /= in[2]
                    /\ Embeds(Tail(in), SubSeq(out, k, Len(out)))

\* C2: for every input path and every positive max_segment_length, no two
\* consecutive points of the output of add_points are farther apart than
\* max_segment_length.
C2_NoLongSegment ==
    ap_pc = "done" =>
        \A k \in 1..(Len(ap_result) - 1) :
            WithinLength(ap_result[k], ap_result[k + 1], max_segment_length)

\* add_points returned a path into which it inserted points.
C2_Witness ==
    /\ ap_pc = "done"
    /\ Len(points) >= 2
    /\ Len(ap_result) > Len(points)

\* C3: for every non-empty input path the output of add_points starts with
\* the first input point and contains every input point in the input's
\* order, the inserted points lying only between the two input points they
\* interpolate.
C3_InputPreserved ==
    (ap_pc = "done" /\ Len(points) >= 1) =>
        /\ ap_result[1] = points[1]
        /\ Embeds(points, ap_result)

\* add_points returned a three-point path with a short and a long segment.
C3_Witness ==
    /\ ap_pc = "done"
    /\ Len(points) = 3
    /\ ~Exceeds(points[1], points[2], max_segment_length)
    /\ Exceeds(points[2], points[3], max_segment_length)
    /\ Len(ap_result) > 3

\* C4: add_points called with zero points or exactly one point returns the
\* input unchanged and does not fail.
C4_DegenerateUnchanged ==
    Len(points) <= 1 =>
        /\ ap_pc /= "IndexError"
        /\ (ap_pc = "done" => ap_result = points)

\* C9: for each consecutive input pair (p1, p2) at distance d, add_points
\* inserts exactly floor(d / max_segment_length) points when
\* d > max_segment_length and none otherwise, and the inserted points cut
\* the straight line from p1 to p2 into equal segments of length
\* d / (floor(d / max_segment_length) + 1).
C9_InsertsFloorEvenly ==
    [][(ap_pc = "loop" /\ i' = i + 1) =>
        LET p1 == points[i - 1]
            p2 == points[i]
            m  == max_segment_length
            D2 == Distance2(p1, p2)[1]
            n  == Len(new_points') - Len(new_points) - 1
        IN  /\ n >= 0
            /\ (D2 <= m * m => n = 0)
            /\ (D2 > m * m => n * n * m * m <= D2 /\ D2 < (n + 1) * (n + 1) * m * m)
            /\ SubSeq(new_points', 1, Len(new_points)) = new_points
            /\ new_points[Len(new_points)] = p1
            /\ new_points'[Len(new_points')] = p2
            /\ \A k \in Len(new_points)..(Len(new_points') - 1) :
                  LET s2 == Distance2(new_points'[k], new_points'[k + 1])
                  IN  s2[1] * (n + 1) * (n + 1) = D2 * s2[2]
      ]_vars

\* Two points 47 apart with max_segment_length 15: three points inserted,
\* the first at 11.75 = 47/4 from the start.
C9_Witness ==
    /\ ap_pc = "done"
    /\ points = <<Point(0, 0), Point(47, 0)>>
    /\ max_segment_length = 15
    /\ Len(ap_result) = 5
    /\ ap_result[2] = [x |-> 47, y |-> 0, d |-> 4]

----------------------------------------------------------------------------
\* snap (src/match.py:41-76).
\*
\* A line is one straight segment from a to b with integer end points and an
\* integer length; a number that need not be an integer is a fraction
\* <<numerator, denominator>> with a positive denominator.

offset == 15

tolerance == 10

Min(a, b) == IF a <= b THEN a ELSE b

Max(a, b) == IF a >= b THEN a ELSE b

\* (b - a) . (b - a) and (pt - a) . (b - a).
Length2(line) ==
    (line.b.x - line.a.x) * (line.b.x - line.a.x)
        + (line.b.y - line.a.y) * (line.b.y - line.a.y)

Dot(pt, line) ==
    (pt.x - line.a.x) * (line.b.x - line.a.x)
        + (pt.y - line.a.y) * (line.b.y - line.a.y)

\* geometry.length
LineLength(line) == ISqrt(Length2(line))

\* line 51-52: the point's bounds widened by offset intersect the line's
\* bounding box (lines.sindex.intersection).
BBoxHit(pt, line) ==
    /\ pt.x - offset <= Max(line.a.x, line.b.x)
    /\ pt.x + offset >= Min(line.a.x, line.b.x)
    /\ pt.y - offset <= Max(line.a.y, line.b.y)
    /\ pt.y + offset >= Min(line.a.y, line.b.y)

\* line 68: square of geometry.distance(orig_pt), the distance from the
\* point to the nearest point of the segment.
SnapDist2(pt, line) ==
    LET l2 == Length2(line)
        dt == Dot(pt, line)
    IN  IF dt <= 0 THEN Distance2(pt, line.a)
        ELSE IF dt >= l2 THEN Distance2(pt, line.b)
        ELSE <<Distance2(pt, line.a)[1] * l2 - dt * dt, l2>>

\* line 73: orig_lines.project(orig_pt), the arc length from a to the point
\* of the segment nearest to pt, as a fraction over the line's length.
Project(pt, line) ==
    <<Max(0, Min(Length2(line), Dot(pt, line))), LineLength(line)>>

\* line 69: tmp.snap_dist <= tolerance, on the squares.
WithinOffset(d2) == d2[1] <= offset * offset * d2[2]

WithinTolerance(d2) == d2[1] <= tolerance * tolerance * d2[2]

\* lines 55-64: one row per (point, nearby line), points in table order.
RECURSIVE JoinHits(_, _, _)
JoinHits(pts, lns, k) ==
    IF k > Len(pts) THEN <<>>
    ELSE LET hits == SelectSeq([n \in 1..Len(lns) |-> n],
                               LAMBDA n : BBoxHit(pts[k].geometry, lns[n]))
         IN  [h \in 1..Len(hits) |-> [pt_idx |-> k, line_i |-> hits[h]]]
                 \o JoinHits(pts, lns, k + 1)

\* lines 67-76: the rows within tolerance, with snap_dist, line_length, proj.
SnapTable(pts, lns) ==
    LET tmp == JoinHits(pts, lns, 1)
        row(t) == [pt_idx      |-> t.pt_idx,
                   strava_id   |-> pts[t.pt_idx].strava_id,
                   street_id   |-> lns[t.line_i].street_id,
                   snap_dist2  |-> SnapDist2(pts[t.pt_idx].geometry, lns[t.line_i]),
                   line_length |-> LineLength(lns[t.line_i]),
                   proj        |-> Project(pts[t.pt_idx].geometry, lns[t.line_i])]
        all == [n \in 1..Len(tmp) |-> row(tmp[n])]
    IN  SelectSeq(all, LAMBDA r : WithinTolerance(r.snap_dist2))

\* The street network: street 1 of length 100 along the x axis, street 2 of
\* length 60 leaving the same corner.
StreetA == [street_id |-> 1, a |-> Point(0, 0), b |-> Point(100, 0)]

StreetB == [street_id |-> 2, a |-> Point(0, 0), b |-> Point(36, 48)]

LineTables == {<<StreetA, StreetB>>, <<StreetA>>, <<StreetB>>}

\* The track points the points table is drawn from, in a fixed order.
PointRows ==
    << [geometry |-> Point(10, 0),  strava_id |-> 1],
       [geometry |-> Point(50, 5),  strava_id |-> 1],
       [geometry |-> Point(65, 0),  strava_id |-> 1],
       [geometry |-> Point(90, 0),  strava_id |-> 1],
       [geometry |-> Point(110, 0), strava_id |-> 1],
       [geometry |-> Point(50, 11), strava_id |-> 1],
       [geometry |-> Point(6, 8),   strava_id |-> 1],
       [geometry |-> Point(30, 40), strava_id |-> 1],
       [geometry |-> Point(6, 8),   strava_id |-> 2],
       [geometry |-> Point(30, 40), strava_id |-> 2] >>

\* Non-empty points tables, one per multiset of PointRows.
PointTables ==
    LET picks == UNION {{f \in [1..n -> 1..Len(PointRows)] :
                            \A k \in 1..(n - 1) : f[k] <= f[k + 1]} :
                        n \in 1..MaxSnapPoints}
    IN  {[k \in DOMAIN f |-> PointRows[f[k]]] : f \in picks}

MatchInit ==
    /\ AddPointsIdle
    /\ UpdateIdle
    /\ snap_points \in PointTables
    /\ lines \in LineTables
    /\ snapped = <<>>
    /\ groups = <<>>
    /\ group_key = <<>>
    /\ proj = <<>>
    /\ coverage = <<0, 1>>
    /\ max_gap = <<0, 1>>
    /\ complete = <<>>
    /\ m_pc = "snap"

----------------------------------------------------------------------------
\* get_complete (src/match.py:79-101).

coverage_threshold == <<55, 100>>

gap_limit == 40

\* numpy's nan, kept as the fraction 0/0.
NaN == <<0, 0>>

\* a < b and a > b on fractions; a comparison with NaN is false.
Less(a, b) == a /= NaN /\ b /= NaN /\ a[1] * b[2] < b[1] * a[2]

Greater(a, b) == Less(b, a)

\* Lexicographic order of the group keys, the order groupby visits them in.
KeyLess(k1, k2) ==
    \/ k1[1] < k2[1]
    \/ k1[1] = k2[1] /\ k1[2] < k2[2]
    \/ k1[1] = k2[1] /\ k1[2] = k2[2] /\ k1[3] < k2[3]

RECURSIVE SortedKeys(_)
SortedKeys(S) ==
    IF S = {} THEN <<>>
    ELSE LET k == CHOOSE x \in S : \A y \in S \ {x} : KeyLess(x, y)
         IN  <<k>> \o SortedKeys(S \ {k})

\* line 88-90: gdf.groupby(["street_id", "line_length", "strava_id"]).
GroupKeys(gdf) ==
    SortedKeys({<<gdf[n].street_id, gdf[n].line_length, gdf[n].strava_id>> :
                   n \in 1..Len(gdf)})

\* line 91: group["proj"].sort_values(); the numerators, all over street_len.
GroupProj(gdf, key) ==
    LET rows == SelectSeq(gdf, LAMBDA r :
                    <<r.street_id, r.line_length, r.strava_id>> = key)
    IN  SortSeq([n \in 1..Len(rows) |-> rows[n].proj[1]],
                LAMBDA a, b : a < b)

\* line 92: (proj.max() - proj.min()) / street_len.
Coverage(p, street_len) == <<p[Len(p)] - p[1], street_len * street_len>>

\* lines 93-95: the largest difference of consecutive projections; the
\* max() of the empty series of a one-row group is NaN.
MaxGap(p, street_len) ==
    IF Len(p) <= 1 THEN NaN
    ELSE LET d == {p[n + 1] - p[n] : n \in 1..(Len(p) - 1)}
         IN  <<CHOOSE g \in d : \A h \in d : h <= g, street_len>>

\* line 97: coverage < coverage_threshold or max_gap > gap_limit.
SkipsExclusive(c, g) ==
    ~Greater(c, coverage_threshold) \/ Greater(g, <<gap_limit, 1>>)

SkipsBothNeeded(c, g) ==
    Less(c, coverage_threshold) /\ Greater(g, <<gap_limit, 1>>)

Skips(c, g) == Less(c, coverage_threshold) \/ Greater(g, <<gap_limit, 1>>)

\* snap(points, lines), and get_complete entered with what it returns.
Snap ==
    /\ m_pc = "snap"
    /\ snapped' = SnapTable(snap_points, lines)
    /\ groups' = GroupKeys(snapped')
    /\ m_pc' = "groupby"
    /\ UNCHANGED <<snap_points, lines, group_key, proj, coverage, max_gap, complete>>
    /\ UNCHANGED <<apVars, uVars>>

\* lines 88-95: the loop takes the next group and computes its figures.
GetCompleteGroup ==
    /\ m_pc = "groupby"
    /\ groups /= <<>>
    /\ group_key' = Head(groups)
    /\ groups' = Tail(groups)
    /\ proj' = GroupProj(snapped, group_key')
    /\ coverage' = Coverage(proj', group_key'[2])
    /\ max_gap' = MaxGap(proj', group_key'[2])
    /\ m_pc' = "classify"
    /\ UNCHANGED <<snap_points, lines, snapped, complete>>
    /\ UNCHANGED <<apVars, uVars>>

\* lines 97-99: continue, or complete.append(street_id).
GetCompleteClassify ==
    /\ m_pc = "classify"
    /\ complete' = IF Skips(coverage, max_gap)
                   THEN complete
                   ELSE Append(complete, group_key[1])
    /\ m_pc' = "groupby"
    /\ UNCHANGED <<snap_points, lines, snapped, groups, group_key, proj,
                   coverage, max_gap>>
    /\ UNCHANGED <<apVars, uVars>>

\* lines 100-101: return complete.
GetCompleteReturn ==
    /\ m_pc = "groupby"
    /\ groups = <<>>
    /\ m_pc' = "done"
    /\ UNCHANGED <<snap_points, lines, snapped, groups, group_key, proj,
                   coverage, max_gap, complete>>
    /\ UNCHANGED <<apVars, uVars>>

MatchNext == Snap \/ GetCompleteGroup \/ GetCompleteClassify \/ GetCompleteReturn

SpecMatch == MatchInit /\ [][MatchNext]_vars

----------------------------------------------------------------------------
\* Properties of snap and get_complete.

\* The rows of the table in the group of key, and their projections
\* (numerators over the street length key[2]).
GroupRows(key) ==
    {n \in 1..Len(snapped) :
        <<snapped[n].street_id, snapped[n].line_length, snapped[n].strava_id>> = key}

GroupValues(key) == {snapped[n].proj[1] : n \in GroupRows(key)}

\* (max proj - min proj) / line_length >= 0.55.
CoverageRatioMet(key) ==
    LET V  == GroupValues(key)
        hi == CHOOSE v \in V : \A w \in V : w <= v
        lo == CHOOSE v \in V : \A w \in V : v <= w
    IN  (hi - lo) * 100 >= 55 * key[2] * key[2]

\* The largest difference between neighbours among the sorted projections
\* is <= 40.
MaxGapMet(key) ==
    LET V == GroupValues(key)
    IN  \A a, b \in V :
            (a < b /\ ~\E c \in V : a < c /\ c < b) => b - a <= 40 * key[2]

\* C1: a (street_id, track) group with at least two projections is
\* classified complete if and only if its coverage_ratio is >= 0.55 and its
\* max_gap is <= 40, both inclusive; projections {10, 90} on a street of
\* length 100 (coverage 0.80, max_gap 80) are incomplete.
C1_CompleteIffThresholds ==
    [][(m_pc = "classify" /\ Cardinality(GroupRows(group_key)) >= 2) =>
        /\ (CoverageRatioMet(group_key) /\ MaxGapMet(group_key))
              => complete' = Append(complete, group_key[1])
        /\ ~(CoverageRatioMet(group_key) /\ MaxGapMet(group_key))
              => complete' = complete
        /\ (group_key[2] = 100 /\ GroupValues(group_key) = {1000, 9000})
              => complete' = complete
      ]_vars

\* Projections 10, 50, 65 on the street of length 100: coverage exactly
\* 0.55, max_gap exactly 40, and the street was appended.
C1_Witness ==
    /\ m_pc = "groupby"
    /\ group_key = <<1, 100, 1>>
    /\ proj = <<1000, 5000, 6500>>
    /\ coverage = <<5500, 10000>>
    /\ max_gap = <<4000, 100>>
    /\ complete /= <<>>
    /\ complete[Len(complete)] = 1

\* C5: the result of get_complete contains each street_id at most once,
\* also when several tracks each meet the criterion on the same street.
C5_DistinctStreetIds ==
    m_pc = "done" =>
        \A a, b \in 1..Len(complete) : complete[a] = complete[b] => a = b

\* C6: every record returned by snap has snap_dist <= tolerance (10) and a
\* projected distance proj with 0 <= proj <= line_length.
C6_SnapRecordBounds ==
    m_pc /= "snap" =>
        \A n \in 1..Len(snapped) :
            /\ snapped[n].snap_dist2[1] <= 10 * 10 * snapped[n].snap_dist2[2]
            /\ 0 <= snapped[n].proj[1]
            /\ snapped[n].proj[1] <= snapped[n].line_length * snapped[n].proj[2]

\* snap returned a record exactly at the tolerance, projected onto the far
\* end of its line, and dropped a candidate beyond the tolerance.
C6_Witness ==
    /\ m_pc = "groupby"
    /\ \E n \in 1..Len(snapped) :
          /\ snapped[n].snap_dist2 = <<100, 1>>
          /\ snapped[n].proj = <<10000, 100>>
    /\ \E k \in 1..Len(snap_points) :
          /\ snap_points[k].geometry = Point(50, 11)
          /\ \A n \in 1..Len(snapped) : snapped[n].pt_idx /= k

----------------------------------------------------------------------------
\* update_geojson (src/match.py:142-161).
\*
\* A response is its status and its body; a body is JSON (a list or an
\* object) or text that is not JSON.  An entry of `activities` is
\* <<"activity", page, k>>, the k-th activity of a page, or
\* <<"key", page, k>>, the k-th key of a JSON object (extend adds the keys).

per_page == 100

Body(kind, tag, page, n) ==
    [kind |-> kind, items |-> [k \in 1..n |-> <<tag, page, k>>]]

\* What the remote source may answer to the request for a page: a page of
\* activities, or an error whose body is an object with a message, an empty
\* object, an empty list, or not JSON.
PageSizes == {0, 1, per_page - 1, per_page}

ErrorStatuses == {401, 429, 500}

Responses(page) ==
    {[status |-> 200, body |-> Body("list", "activity", page, n)] : n \in PageSizes}
        \cup {[status |-> st, body |-> b] :
                 st \in ErrorStatuses,
                 b \in {Body("dict", "key", page, 2), Body("dict", "key", page, 0),
                        Body("list", "activity", page, 0), Body("text", "key", page, 0)}}

\* line 151: len(res.json()) < 100.
LastPageInclusive(body) == Len(body.items) <= per_page

LastPage(body) == Len(body.items) < per_page

\* line 155: a["map"]["summary_polyline"] is defined on an activity; on a
\* string it raises TypeError.
Decodable(acts) == \A k \in 1..Len(acts) : acts[k][1] = "activity"

UpdateInit ==
    /\ AddPointsIdle
    /\ MatchIdle
    /\ activities = <<>>
    /\ pageNum = 1
    /\ requests = <<>>
    /\ responses = <<>>
    /\ written = FALSE
    /\ u_result = <<>>
    /\ u_pc = "fetch"

\* lines 145-153: one turn of the loop, with the response it receives.
FetchPage ==
    /\ u_pc = "fetch"
    /\ pageNum <= MaxPages
    /\ \E res \in Responses(pageNum) :
          /\ requests' = Append(requests, pageNum)
          /\ responses' = Append(responses, res)
          /\ IF res.body.kind = "text"
             THEN \* res.json() raises
                  /\ u_pc' = "raised"
                  /\ UNCHANGED <<activities, pageNum>>
             ELSE /\ activities' = activities \o res.body.items
                  /\ IF LastPage(res.body)
                     THEN u_pc' = "decode" /\ UNCHANGED pageNum
                     ELSE pageNum' = pageNum + 1 /\ UNCHANGED u_pc
    /\ UNCHANGED <<written, u_result>>
    /\ UNCHANGED <<apVars, mVars>>

\* line 145: requests.get raises, the source being unreachable.
FetchUnreachable ==
    /\ u_pc = "fetch"
    /\ pageNum <= MaxPages
    /\ requests' = Append(requests, pageNum)
    /\ u_pc' = "raised"
    /\ UNCHANGED <<activities, pageNum, responses, written, u_result>>
    /\ UNCHANGED <<apVars, mVars>>

\* lines 155-161: decode the polylines, write the file, return the table.
DecodeAndWrite ==
    /\ u_pc = "decode"
    /\ IF Decodable(activities)
       THEN /\ written' = TRUE
            /\ u_result' = activities
            /\ u_pc' = "done"
       ELSE /\ u_pc' = "raised"
            /\ UNCHANGED <<written, u_result>>
    /\ UNCHANGED <<activities, pageNum, requests, responses>>
    /\ UNCHANGED <<apVars, mVars>>

UpdateNext == FetchPage \/ FetchUnreachable \/ DecodeAndWrite

SpecUpdate == UpdateInit /\ [][UpdateNext]_vars

----------------------------------------------------------------------------
\* Properties of update_geojson.

\* The entries of the bodies of rs, one body after the other.
RECURSIVE Concatenated(_)
Concatenated(rs) ==
    IF rs = <<>> THEN <<>>
    ELSE IF Head(rs).body.kind = "text" THEN Concatenated(Tail(rs))
    ELSE Head(rs).body.items \o Concatenated(Tail(rs))

\* C7: when the remote source returns a non-success status, update_geojson
\* surfaces the failure: it does not return a track collection built from
\* the error response, and it does not request a page again.
C7_FailureSurfaced ==
    (\E k \in 1..Len(responses) : responses[k].status /= 200) =>
        /\ u_pc /= "done"
        /\ ~written
        /\ \A a, b \in 1..Len(requests) : requests[a] = requests[b] => a = b

\* C10: the loop requests pages 1, 2, 3, ... with none skipped or repeated,
\* stops right after the first page of fewer than 100 entries and only
\* then, the accumulated list is then the concatenation of the pages in
\* page order, and the decode/write step runs only after the loop stopped.
C10_PaginationOrder ==
    /\ \A k \in 1..Len(requests) : requests[k] = k
    /\ u_pc = "fetch" =>
          /\ pageNum = Len(requests) + 1
          /\ \A k \in 1..Len(responses) : Len(responses[k].body.items) >= 100
    /\ u_pc \in {"decode", "done"} =>
          /\ responses /= <<>>
          /\ Len(responses) = Len(requests)
          /\ Len(responses[Len(responses)].body.items) < 100
          /\ \A k \in 1..(Len(responses) - 1) :
                Len(responses[k].body.items) >= 100
          /\ activities = Concatenated(responses)
    /\ written => u_pc = "done"
    /\ u_pc = "done" => written /\ u_result = activities

\* Two full pages and a short third one were fetched, and the table of all
\* 201 activities was written and returned.
C10_Witness ==
    /\ u_pc = "done"
    /\ requests = <<1, 2, 3>>
    /\ Len(activities) = 2 * per_page + 1
    /\ activities[Len(activities)] = <<"activity", 3, 1>>
    /\ written

====
